---- MODULE Spec2Model ----
(***************************************************************************)
(* Duplicate-submission detection, penalty / restore and the retrying      *)
(* grading call of ExamGrader.                                             *)
(*                                                                         *)
(* The App component (src/context/AppContext.tsx, lines 159-1597) is a set *)
(* of event handlers over React state; gradeExam (src/unnamed/part_002,    *)
(* lines 386-518) is the asynchronous grading call.  A grading cycle is    *)
(* one run of handleGradeExam: it is suspended at its awaits, and while it *)
(* is suspended every other handler may run.  The values a cycle read      *)
(* from its closure (studentName, studentGroup, examFiles,                 *)
(* sessionSubmissions, archivedResults) are those of the render in which   *)
(* it was started; they are kept in the cycle's record.                    *)
(*                                                                         *)
(* Presentation state that no modelled guard reads is left out:            *)
(* notification, formError, showSettings, showArchive (the header toggle   *)
(* is always clickable, so the archive buttons are always reachable),      *)
(* submissionTime / timestamp, examReferences, language, strengths and     *)
(* weaknesses.  settings.studentGroups is the empty list (free-text group  *)
(* input), so availableGroups is empty; totalMarks keeps its default.      *)
(*                                                                         *)
(* Spec is the App component with the service answering each gradeExam     *)
(* call of a cycle; SpecGrade is one call of gradeExam taken turn by turn  *)
(* of its retry loop, for any credential, student and totalMarks and every *)
(* answer of the service.  SpecHash is the file list of the upload step    *)
(* and the fingerprint taken of it; SpecLookup is the session registry     *)
(* filled by the recording updater and searched by the lookup.             *)
(* SpecPrompt is constructGradingPrompt called with every combination of   *)
(* its arguments; SpecLive is Spec with the preparation of the request     *)
(* that never settles and the fairness of the runs that can resume;        *)
(* SpecGroups is the App with two students in each of two groups, started  *)
(* when a student is archived in both.                                     *)
(***************************************************************************)
EXTENDS Integers, Sequences, FiniteSets, TLC

VARIABLES
    apiKey,                 \* settings.apiKey ("" when not configured)
    step,                   \* AppStep
    studentName,
    studentGroup,
    examFiles,              \* sequence of files
    gradingResult,          \* GradingResult or NullResult
    isLoading,
    error,                  \* message key shown, "" for null
    archivedResults,        \* sequence of GradingResult, most recent first
    stored,                 \* localStorage entry 'archivedExams'
    sessionSubmissions,     \* group -> sequence of {studentName, contentHash}
    penalizedArchiveEntry,  \* {originalResult, newResult} or NullEntry
    cycles,                 \* slot -> suspended handleGradeExam run
    now                     \* the clock read by new Date()

vars == <<apiKey, step, studentName, studentGroup, examFiles, gradingResult,
          isLoading, error, archivedResults, stored, sessionSubmissions,
          penalizedArchiveEntry, cycles, now>>

----------------------------------------------------------------------------
(* Bounds of the model *)

MaxCycles == 3
MaxInFlight == 2
MaxArchive == 2
MaxFiles == 3

(* Program constants *)

MAX_RETRIES == 3
DefaultTotalMarks == 40

----------------------------------------------------------------------------
(* Input domains *)

Groups == {"g1", "g2"}

\* The students graded: A and B of group g1, and a student of group g2 who
\* is also called A.
Students == {<<"A", "g1">>, <<"B", "g1">>, <<"A", "g2">>}
Slots == 1..MaxCycles

\* A file: name (its collation rank under localeCompare), size and bytes.
FileP == [name |-> 1, size |-> 1, bytes |-> <<1>>]

\* The files uploaded in the App specification: every student hands in P.
AppFiles == {FileP}

\* The files of the hashing specification: Q has another name, R has the name
\* of P (a file of another folder) and another size and content.
FileQ == [name |-> 2, size |-> 1, bytes |-> <<2>>]
FileR == [name |-> 1, size |-> 2, bytes |-> <<3, 3>>]
Files == {FileP, FileQ, FileR}

\* The students of the lookup specification.
Names == {"A", "B", "C"}

\* Error objects: the constructor and the marker substrings of the message.
ErrRateLimit == [type |-> "Error", msg |-> {"429"}]
ErrKeyInvalid == [type |-> "Error", msg |-> {"API key not valid"}]
ErrSafety == [type |-> "Error", msg |-> {"SAFETY"}]
ErrPayload == [type |-> "Error", msg |-> {"Request payload size exceeds the limit"}]
ErrOther == [type |-> "Error", msg |-> {}]
ErrSyntax == [type |-> "SyntaxError", msg |-> {}]
ErrSyntax429 == [type |-> "SyntaxError", msg |-> {"429"}]
ErrType == [type |-> "TypeError", msg |-> {}]
NoError == [type |-> "none", msg |-> {}]

TransportErrors == {ErrRateLimit, ErrKeyInvalid, ErrSafety, ErrPayload, ErrOther}

\* What the external service answers to one generateContent call.
\*   kind "fail": the call rejects with err
\*   kind "text": the call resolves; body says how the text decodes
\*     "json"      a JSON object with score, totalMarks, detailedFeedback
\*     "garbage"   JSON.parse throws a SyntaxError
\*     "garbage429" JSON.parse throws a SyntaxError whose message contains
\*                 429 (the position or the quoted snippet of the text)
\*     "malformed" JSON without a detailedFeedback array (TypeError)
NoScore == -1
RawScores == {NoScore, 0, 3}
RawTotals == {DefaultTotalMarks, 7}
MarkLists == {<<1, 2>>, <<2>>}

FailResponses ==
    {[kind |-> "fail", body |-> "", err |-> e, score |-> NoScore,
      totalMarks |-> 0, marks |-> <<>>] : e \in TransportErrors}

BadTextResponses ==
    {[kind |-> "text", body |-> b, err |-> NoError, score |-> NoScore,
      totalMarks |-> 0, marks |-> <<>>] : b \in {"garbage", "garbage429", "malformed"}}

JsonResponses ==
    {[kind |-> "text", body |-> "json", err |-> NoError, score |-> s,
      totalMarks |-> tm, marks |-> m] :
        s \in RawScores, tm \in RawTotals, m \in MarkLists}

Responses == FailResponses \cup BadTextResponses \cup JsonResponses

RateLimited == [kind |-> "fail", body |-> "", err |-> ErrRateLimit, score |-> NoScore,
                totalMarks |-> 0, marks |-> <<>>]
KeyRejected == [kind |-> "fail", body |-> "", err |-> ErrKeyInvalid, score |-> NoScore,
                totalMarks |-> 0, marks |-> <<>>]
Graded == [kind |-> "text", body |-> "json", err |-> NoError, score |-> 0,
           totalMarks |-> 7, marks |-> <<1, 2>>]

\* The answers the App specification draws from.  handleGradeExam sees of a
\* gradeExam run only the result or the thrown key and treats every key
\* alike: a first-call success, a success after one retry, a fatal failure
\* and the exhaustion of the retries stand for the runs of gradeExam there.
AppAnswers ==
    {<<Graded, Graded, Graded>>,
     <<RateLimited, Graded, Graded>>,
     <<KeyRejected, Graded, Graded>>,
     <<RateLimited, RateLimited, RateLimited>>}

----------------------------------------------------------------------------
(* Values *)

NullAnalysis == [detected |-> FALSE, reasoning |-> "", isAiGenerated |-> "absent"]

NullResult ==
    [studentName |-> "", studentGroup |-> "", score |-> 0, totalMarks |-> 0,
     cheatingAnalysis |-> NullAnalysis, detailedFeedback |-> <<>>, id |-> -1]

NullEntry == [originalResult |-> NullResult, newResult |-> NullResult]

NoMatch == ""
NoHash == <<>>

EmptySubmissions == [g \in Groups |-> <<>>]

\* A run of handleGradeExam.  apiKey .. archive are the values of its
\* closure; contentHash and matchingStudentName are its locals; calls (the
\* loop variable attempt), lastError, ret and thrown tell how its gradeExam
\* call goes: the generateContent calls made, the last error caught, the
\* result returned or the error key thrown.  seen is a history of the
\* answers the service gave to the calls made so far.
IdleCycle ==
    [pc |-> "fresh", apiKey |-> "", studentName |-> "", studentGroup |-> "",
     totalMarks |-> 0, files |-> <<>>, subs |-> EmptySubmissions, archive |-> <<>>,
     contentHash |-> NoHash, matchingStudentName |-> NoMatch,
     calls |-> 0, lastError |-> NoError, seen |-> <<>>,
     ret |-> NullResult, thrown |-> ""]

\* t(key, {studentName}) : the template of the key with the name filled in.
t(key, name) == key \o ":" \o name

RECURSIVE SumMarks(_)
SumMarks(fb) ==
    IF fb = <<>> THEN 0 ELSE Head(fb).marksAwarded + SumMarks(Tail(fb))

----------------------------------------------------------------------------
(* generateContentHash *)

\* Insert f into the name-sorted list s after every element that does not
\* compare greater: Array.prototype.sort is stable.
RECURSIVE InsertByName(_, _)
InsertByName(f, s) ==
    IF s = <<>> THEN <<f>>
    ELSE IF Head(s).name <= f.name THEN <<Head(s)>> \o InsertByName(f, Tail(s))
    ELSE <<f>> \o s

RECURSIVE SortByName(_)
SortByName(files) ==
    IF files = <<>> THEN <<>>
    ELSE InsertByName(files[Len(files)], SortByName(SubSeq(files, 1, Len(files) - 1)))

RECURSIVE ConcatBytes(_)
ConcatBytes(files) ==
    IF files = <<>> THEN <<>> ELSE Head(files).bytes \o ConcatBytes(Tail(files))

\* SHA-256 is taken to be injective: the digest stands for the buffer hashed.
generateContentHash(files) == <<"sha256", ConcatBytes(SortByName(files))>>

----------------------------------------------------------------------------
(* Session registry *)

\* The search without its test on the student.
RECURSIVE FindMatchAnyStudent(_, _, _)
FindMatchAnyStudent(groupSubmissions, contentHash, name) ==
    IF groupSubmissions = <<>> THEN NoMatch
    ELSE IF Head(groupSubmissions).contentHash = contentHash
         THEN Head(groupSubmissions).studentName
         ELSE FindMatchAnyStudent(Tail(groupSubmissions), contentHash, name)

\* groupSubmissions.find(sub => sub.contentHash === contentHash &&
\*                              sub.studentName !== studentName)
RECURSIVE FindMatch(_, _, _)
FindMatch(groupSubmissions, contentHash, name) ==
    IF groupSubmissions = <<>> THEN NoMatch
    ELSE IF /\ Head(groupSubmissions).contentHash = contentHash
            /\ Head(groupSubmissions).studentName # name
         THEN Head(groupSubmissions).studentName
         ELSE FindMatch(Tail(groupSubmissions), contentHash, name)

HasSubmission(existingSubs, name, contentHash) ==
    \E k \in 1..Len(existingSubs) :
        /\ existingSubs[k].studentName = name
        /\ existingSubs[k].contentHash = contentHash

\* The updater without its existence test.
RecordSubmissionAlways(prev, group, name, contentHash) ==
    [prev EXCEPT ![group] =
        Append(prev[group], [studentName |-> name, contentHash |-> contentHash])]

\* The updater passed to setSessionSubmissions.
RecordSubmission(prev, group, name, contentHash) ==
    IF HasSubmission(prev[group], name, contentHash) THEN prev
    ELSE [prev EXCEPT ![group] =
            Append(prev[group], [studentName |-> name, contentHash |-> contentHash])]

----------------------------------------------------------------------------
(* gradeExam *)

IsRateLimitError(e) == "429" \in e.msg

\* The error a response makes the try block throw, NoError when it returns.
ThrownBy(resp) ==
    IF resp.kind = "fail" THEN resp.err
    ELSE IF resp.body = "garbage" THEN ErrSyntax
    ELSE IF resp.body = "garbage429" THEN ErrSyntax429
    ELSE IF resp.body = "malformed" THEN ErrType
    ELSE NoError

\* The result with the score of the response kept as the service gave it.
NormalizeResultTrustingScore(resp, name, group, totalMarks, clock) ==
    [studentName |-> name,
     studentGroup |-> group,
     score |-> resp.score,
     totalMarks |-> totalMarks,
     cheatingAnalysis |-> [detected |-> FALSE, reasoning |-> "service",
                           isAiGenerated |-> "false"],
     detailedFeedback |-> [k \in 1..Len(resp.marks) |->
                              [maxMarks |-> 2, marksAwarded |-> resp.marks[k]]],
     id |-> clock]

\* The result with an id that does not come from the clock.
NormalizeResultFixedId(resp, name, group, totalMarks, clock) ==
    LET fb == [k \in 1..Len(resp.marks) |-> [maxMarks |-> 2, marksAwarded |-> resp.marks[k]]]
    IN  [studentName |-> name,
         studentGroup |-> group,
         score |-> SumMarks(fb),
         totalMarks |-> totalMarks,
         cheatingAnalysis |-> [detected |-> FALSE, reasoning |-> "service",
                               isAiGenerated |-> "false"],
         detailedFeedback |-> fb,
         id |-> 1]

\* The result with the totalMarks of the response kept.
NormalizeResultKeepingTotal(resp, name, group, totalMarks, clock) ==
    LET fb == [k \in 1..Len(resp.marks) |-> [maxMarks |-> 2, marksAwarded |-> resp.marks[k]]]
    IN  [studentName |-> name,
         studentGroup |-> group,
         score |-> SumMarks(fb),
         totalMarks |-> resp.totalMarks,
         cheatingAnalysis |-> [detected |-> FALSE, reasoning |-> "service",
                               isAiGenerated |-> "false"],
         detailedFeedback |-> fb,
         id |-> clock]

\* Lines 470-486: the result built from a decoded response.
NormalizeResult(resp, name, group, totalMarks, clock) ==
    LET fb == [k \in 1..Len(resp.marks) |-> [maxMarks |-> 2, marksAwarded |-> resp.marks[k]]]
        calculatedScore == SumMarks(fb)
    IN  [studentName |-> name,
         studentGroup |-> group,
         score |-> IF resp.score # calculatedScore THEN calculatedScore ELSE resp.score,
         totalMarks |-> totalMarks,
         cheatingAnalysis |-> [detected |-> FALSE, reasoning |-> "service",
                               isAiGenerated |-> "false"],
         detailedFeedback |-> fb,
         id |-> clock]

\* The last error rethrown as it was caught.
MapErrorUntranslated(lastError) == lastError.type

\* Lines 500-517: the error key thrown after the loop.
MapError(lastError) ==
    IF lastError.type = "SyntaxError" THEN "JSON_PARSE_ERROR"
    ELSE IF "API key not valid" \in lastError.msg THEN "API_KEY_INVALID"
    ELSE IF "429" \in lastError.msg THEN "RATE_LIMIT_ERROR"
    ELSE IF "SAFETY" \in lastError.msg THEN "SAFETY_ERROR"
    ELSE IF "Request payload size exceeds the limit" \in lastError.msg THEN "PAYLOAD_SIZE_ERROR"
    ELSE "UNEXPECTED_GRADING_ERROR"

\* No retry at all.
ShouldRetryNever(e, attempt) == FALSE

\* The condition with one attempt fewer.
ShouldRetryOnce(e, attempt) == IsRateLimitError(e) /\ attempt < MAX_RETRIES - 2

\* Line 491: the condition under which the loop goes round again.
ShouldRetry(e, attempt) == IsRateLimitError(e) /\ attempt < MAX_RETRIES - 1

\* Lines 400-402 and one turn of the for loop of lines 441-498, resp being
\* the outcome of the generateContent call of this turn and clock the time
\* read by new Date() when it returns.
gradeExamStep(c, resp, clock) ==
    IF c.apiKey = ""
    THEN [c EXCEPT !.pc = "settled", !.thrown = "API_KEY_MISSING"]
    ELSE LET attempt == c.calls
             e == ThrownBy(resp)
             d == [c EXCEPT !.calls = attempt + 1, !.seen = Append(@, resp)]
         IN  IF e = NoError
             THEN [d EXCEPT !.pc = "settled",
                            !.ret = NormalizeResult(resp, c.studentName, c.studentGroup,
                                                    c.totalMarks, clock)]
             ELSE IF ShouldRetry(e, attempt) /\ attempt + 1 < MAX_RETRIES
             THEN [d EXCEPT !.lastError = e]
             ELSE [d EXCEPT !.pc = "settled", !.lastError = e, !.thrown = MapError(e)]

\* gradeExam called by the cycle c and run until it settles, answers[k]
\* being the outcome of its k-th generateContent call.
RECURSIVE gradeExam(_, _, _)
gradeExam(c, answers, clock) ==
    IF c.pc = "settled" THEN c
    ELSE gradeExam(gradeExamStep(c, answers[c.calls + 1], clock), answers, clock)

----------------------------------------------------------------------------
(* Duplicate penalty *)

\* The penalized copy with the score zeroed and the marks of the items kept.
PenalizeScoreOnly(res, name) ==
    [res EXCEPT
        !.score = 0,
        !.cheatingAnalysis = [detected |-> TRUE,
                              reasoning |-> t("app.cheatingPenaltyReason", name),
                              isAiGenerated |-> "absent"]]

\* Lines 493-503: the penalized copy of an archived result.
Penalize(res, name) ==
    [res EXCEPT
        !.score = 0,
        !.detailedFeedback = [k \in 1..Len(res.detailedFeedback) |->
                                [res.detailedFeedback[k] EXCEPT !.marksAwarded = 0]],
        !.cheatingAnalysis = [detected |-> TRUE,
                              reasoning |-> t("app.cheatingPenaltyReason", name),
                              isAiGenerated |-> "absent"]]

IsMatched(res, matchName, group) ==
    res.studentName = matchName /\ res.studentGroup = group

\* Lines 489-506: archivedResults.map(...)
PenalizeArchive(archive, matchName, group, name) ==
    [k \in 1..Len(archive) |->
        IF IsMatched(archive[k], matchName, group)
        THEN Penalize(archive[k], name) ELSE archive[k]]

\* originalMatchedResult after the map: the last matching entry, if any.
RECURSIVE LastMatched(_, _, _)
LastMatched(archive, matchName, group) ==
    IF archive = <<>> THEN NullResult
    ELSE IF IsMatched(archive[Len(archive)], matchName, group) THEN archive[Len(archive)]
    ELSE LastMatched(SubSeq(archive, 1, Len(archive) - 1), matchName, group)

\* finalUpdatedArchive.find(r => r.id === id)
RECURSIVE FindById(_, _)
FindById(archive, id) ==
    IF archive = <<>> THEN NullResult
    ELSE IF Head(archive).id = id THEN Head(archive)
    ELSE FindById(Tail(archive), id)

\* JSON.stringify of the archive and JSON.parse of the stored text.  The
\* text is represented by the list of the field tuples it spells out.
StringifyResult(r) ==
    <<r.studentName, r.studentGroup, r.score, r.totalMarks,
      <<r.cheatingAnalysis.detected, r.cheatingAnalysis.reasoning,
        r.cheatingAnalysis.isAiGenerated>>,
      [k \in 1..Len(r.detailedFeedback) |->
          <<r.detailedFeedback[k].maxMarks, r.detailedFeedback[k].marksAwarded>>],
      r.id>>

\* The text with the entries in reverse order.
StringifyReversed(archive) ==
    [k \in 1..Len(archive) |-> StringifyResult(archive[Len(archive) + 1 - k])]

Stringify(archive) == [k \in 1..Len(archive) |-> StringifyResult(archive[k])]

ParseResult(x) ==
    [studentName |-> x[1], studentGroup |-> x[2], score |-> x[3], totalMarks |-> x[4],
     cheatingAnalysis |-> [detected |-> x[5][1], reasoning |-> x[5][2],
                           isAiGenerated |-> x[5][3]],
     detailedFeedback |-> [k \in 1..Len(x[6]) |->
                              [maxMarks |-> x[6][k][1], marksAwarded |-> x[6][k][2]]],
     id |-> x[7]]

Parse(text) == [k \in 1..Len(text) |-> ParseResult(text[k])]

Absent == [present |-> FALSE, text |-> <<>>]
Item(text) == [present |-> TRUE, text |-> text]

----------------------------------------------------------------------------
(* State machine of the App component *)

Init ==
    /\ apiKey \in {"", "key"}
    /\ step = "studentInfo"
    /\ studentName = ""
    /\ studentGroup = ""
    /\ examFiles = <<>>
    /\ gradingResult = NullResult
    /\ isLoading = FALSE
    /\ error = ""
    /\ archivedResults = <<>>
    /\ stored = Absent
    /\ sessionSubmissions = EmptySubmissions
    /\ penalizedArchiveEntry = NullEntry
    /\ cycles = [i \in Slots |-> IdleCycle]
    /\ now = 0

\* The slots are taken in order; a finished cycle leaves its slot "done".
FreeSlots == {i \in Slots : cycles[i].pc = "fresh"}

DoneCycle == [IdleCycle EXCEPT !.pc = "done"]

InFlight == {i \in Slots : cycles[i].pc = "pending"}

\* s.trim().toLowerCase()
TrimLower(s) ==
    CASE s = "A" -> "a"
      [] s = "B" -> "b"
      [] OTHER -> s

\* Lines 430-433
IsDuplicate(archive, name, group) ==
    \E k \in 1..Len(archive) :
        /\ TrimLower(archive[k].studentName) = TrimLower(name)
        /\ TrimLower(archive[k].studentGroup) = TrimLower(group)

\* now is the clock, kept as precisely as the ids can tell: an odd value is
\* a reading that made an id, an even value says that time has passed since
\* the latest id.  A handler run by the user runs at a later millisecond
\* than everything before it.
Later == IF now % 2 = 1 THEN now + 1 ELSE now

\* The readings of new Date() open to a settling gradeExam call: the
\* millisecond of the id made just before, or a later one.
SettleTimes == IF now % 2 = 1 THEN {now, now + 2} ELSE {now + 1}

\* The start of a run that leaves the pending penalty transaction alone.
BeginGradingKeepingPenalty ==
    /\ FreeSlots # {}
    /\ Cardinality(InFlight) < MaxInFlight
    /\ LET i == CHOOSE j \in FreeSlots : \A k \in FreeSlots : j <= k
       IN  cycles' = [cycles EXCEPT ![i] =
               [IdleCycle EXCEPT
                   !.pc = "pending",
                   !.apiKey = apiKey,
                   !.studentName = studentName,
                   !.studentGroup = studentGroup,
                   !.totalMarks = DefaultTotalMarks,
                   !.files = examFiles,
                   !.subs = sessionSubmissions,
                   !.archive = archivedResults]]
    /\ step' = "grading"
    /\ isLoading' = TRUE
    /\ error' = ""
    /\ gradingResult' = NullResult
    /\ now' = Later
    /\ UNCHANGED <<apiKey, studentName, studentGroup, examFiles,
                   archivedResults, stored, sessionSubmissions,
                   penalizedArchiveEntry>>

\* The start of a run with the submission recorded at once.
BeginGradingAfterRecording ==
    /\ FreeSlots # {}
    /\ Cardinality(InFlight) < MaxInFlight
    /\ LET i == CHOOSE j \in FreeSlots : \A k \in FreeSlots : j <= k
       IN  cycles' = [cycles EXCEPT ![i] =
               [IdleCycle EXCEPT
                   !.pc = "pending",
                   !.apiKey = apiKey,
                   !.studentName = studentName,
                   !.studentGroup = studentGroup,
                   !.totalMarks = DefaultTotalMarks,
                   !.files = examFiles,
                   !.subs = sessionSubmissions,
                   !.archive = archivedResults]]
    /\ sessionSubmissions' =
           RecordSubmission(sessionSubmissions, studentGroup, studentName,
                            generateContentHash(examFiles))
    /\ step' = "grading"
    /\ isLoading' = TRUE
    /\ error' = ""
    /\ gradingResult' = NullResult
    /\ penalizedArchiveEntry' = NullEntry
    /\ now' = Later
    /\ UNCHANGED <<apiKey, studentName, studentGroup, examFiles,
                   archivedResults, stored>>

\* Lines 441-446 and the closure of the run that starts.
BeginGrading ==
    /\ FreeSlots # {}
    /\ Cardinality(InFlight) < MaxInFlight
    /\ LET i == CHOOSE j \in FreeSlots : \A k \in FreeSlots : j <= k
       IN  cycles' = [cycles EXCEPT ![i] =
               [IdleCycle EXCEPT
                   !.pc = "pending",
                   !.apiKey = apiKey,
                   !.studentName = studentName,
                   !.studentGroup = studentGroup,
                   !.totalMarks = DefaultTotalMarks,
                   !.files = examFiles,
                   !.subs = sessionSubmissions,
                   !.archive = archivedResults]]
    /\ step' = "grading"
    /\ isLoading' = TRUE
    /\ error' = ""
    /\ gradingResult' = NullResult
    /\ penalizedArchiveEntry' = NullEntry
    /\ now' = Later
    /\ UNCHANGED <<apiKey, studentName, studentGroup, examFiles,
                   archivedResults, stored, sessionSubmissions>>

\* Lines 428-439: the handler returns before it has set anything.
\* The early returns with a pre-check that refuses whatever the answer.
ReturnEarlyOnDuplicate(confirm) ==
    \/ examFiles = <<>> \/ studentName = "" \/ studentGroup = ""
    \/ IsDuplicate(archivedResults, studentName, studentGroup)

ReturnEarly(confirm) ==
    \/ examFiles = <<>> \/ studentName = "" \/ studentGroup = ""
    \/ (IsDuplicate(archivedResults, studentName, studentGroup) /\ ~confirm)

\* handleGradeExam without its credential guard.
GradeExamBodyUnguarded(confirm, entryOnReturn) ==
    IF ReturnEarly(confirm)
    THEN /\ penalizedArchiveEntry' = entryOnReturn
         /\ now' = Later
         /\ UNCHANGED <<apiKey, step, studentName, studentGroup, examFiles,
                        gradingResult, isLoading, error, archivedResults, stored,
                        sessionSubmissions, cycles>>
    ELSE BeginGrading

\* handleGradeExam up to its first await.  confirm is the answer to the
\* duplicate-student dialog; entryOnReturn is the pending penalty
\* transaction the caller leaves behind when the handler returns early.
GradeExamBody(confirm, entryOnReturn) ==
    IF apiKey = ""
    THEN /\ error' = "API_KEY_MISSING_SETTINGS"
         /\ penalizedArchiveEntry' = entryOnReturn
         /\ now' = Later
         /\ UNCHANGED <<apiKey, step, studentName, studentGroup, examFiles,
                        gradingResult, isLoading, archivedResults, stored,
                        sessionSubmissions, cycles>>
    ELSE IF ReturnEarly(confirm)
    THEN /\ penalizedArchiveEntry' = entryOnReturn
         /\ now' = Later
         /\ UNCHANGED <<apiKey, step, studentName, studentGroup, examFiles,
                        gradingResult, isLoading, error, archivedResults, stored,
                        sessionSubmissions, cycles>>
    ELSE BeginGrading

\* The grade button of the file upload step (disabled without files).
HandleGradeExam(confirm) ==
    /\ step = "fileUpload"
    /\ examFiles # <<>>
    /\ GradeExamBody(confirm, penalizedArchiveEntry)

\* handleRegrade, the regrade dialog accepted.
HandleRegrade(confirm) ==
    /\ step = "results"
    /\ gradingResult # NullResult
    /\ GradeExamBody(confirm, NullEntry)

\* Lines 521-527: the catch and finally blocks with the message caught.
Catch(i, message) ==
    /\ error' = message
    /\ step' = "fileUpload"
    /\ isLoading' = FALSE
    /\ cycles' = [cycles EXCEPT ![i] = DoneCycle]
    /\ UNCHANGED <<apiKey, studentName, studentGroup, examFiles, gradingResult,
                   archivedResults, stored, sessionSubmissions,
                   penalizedArchiveEntry, now>>

\* file.arrayBuffer() rejects in generateContentHash: the catch block of
\* handleGradeExam shows the raw message, for which t() finds no
\* translation.
HashFails(i) ==
    /\ cycles[i].pc = "pending"
    /\ Catch(i, "errors.NotReadableError")

\* Lines 449-476 of handleGradeExam and the gradeExam call: the hash, the
\* registry lookup in the closure's sessionSubmissions, and the call with
\* the service's answers.  These steps touch only the locals of the run,
\* so they are taken together, when gradeExam settles.
RunToSettle(c, answers, clock) ==
    LET h == generateContentHash(c.files)
        m == FindMatch(c.subs[c.studentGroup], h, c.studentName)
    IN  gradeExam([c EXCEPT !.contentHash = h, !.matchingStudentName = m],
                  answers, clock)

\* Lines 478-520: handleGradeExam resumes with the result of gradeExam.
Resume(i, c, result) ==
    /\ LET originalMatchedResult ==
               LastMatched(c.archive, c.matchingStudentName, c.studentGroup)
           updatedArchive ==
               PenalizeArchive(c.archive, c.matchingStudentName, c.studentGroup,
                               c.studentName)
       IN  /\ sessionSubmissions' =
                  RecordSubmission(sessionSubmissions, c.studentGroup,
                                   c.studentName, c.contentHash)
           /\ IF c.matchingStudentName # NoMatch /\ originalMatchedResult # NullResult
              THEN /\ archivedResults' = updatedArchive
                   /\ stored' = Item(Stringify(updatedArchive))
                   /\ penalizedArchiveEntry' =
                          [originalResult |-> originalMatchedResult,
                           newResult |-> FindById(updatedArchive, originalMatchedResult.id)]
              ELSE UNCHANGED <<archivedResults, stored, penalizedArchiveEntry>>
    /\ gradingResult' = result
    /\ step' = "results"
    /\ isLoading' = FALSE
    /\ cycles' = [cycles EXCEPT ![i] = DoneCycle]
    /\ UNCHANGED <<apiKey, studentName, studentGroup, examFiles, error>>

\* The resumption with the penalty applied to the new result as well.
GradeSucceedsAtPenalizingResult(i, answers, clock) ==
    /\ cycles[i].pc = "pending"
    /\ clock \in SettleTimes
    /\ LET c == RunToSettle(cycles[i], answers, clock)
       IN  /\ c.thrown = ""
           /\ Resume(i, c, IF c.matchingStudentName # NoMatch
                           THEN Penalize(c.ret, c.matchingStudentName) ELSE c.ret)
    /\ now' = clock

\* gradeExam returns at the given clock reading and the handler resumes in
\* the microtask that follows, so the two make one step.
GradeSucceedsAt(i, answers, clock) ==
    /\ cycles[i].pc = "pending"
    /\ clock \in SettleTimes
    /\ LET c == RunToSettle(cycles[i], answers, clock)
       IN  /\ c.thrown = ""
           /\ Resume(i, c, c.ret)
    /\ now' = clock

GradeSucceeds(i, answers) ==
    \E clock \in SettleTimes : GradeSucceedsAt(i, answers, clock)

\* The catch block of a run that had recorded its submission before the call.
GradeFailsAfterRecording(i, answers) ==
    /\ cycles[i].pc = "pending"
    /\ LET c == RunToSettle(cycles[i], answers, now)
       IN  /\ c.thrown # ""
           /\ error' = c.thrown
           /\ sessionSubmissions' =
                  RecordSubmission(sessionSubmissions, c.studentGroup,
                                   c.studentName, c.contentHash)
    /\ step' = "fileUpload"
    /\ isLoading' = FALSE
    /\ cycles' = [cycles EXCEPT ![i] = DoneCycle]
    /\ UNCHANGED <<apiKey, studentName, studentGroup, examFiles, gradingResult,
                   archivedResults, stored, penalizedArchiveEntry, now>>

\* gradeExam throws and the handler resumes in its catch block.
GradeFails(i, answers) ==
    /\ cycles[i].pc = "pending"
    /\ LET c == RunToSettle(cycles[i], answers, now)
       IN  /\ c.thrown # ""
           /\ Catch(i, c.thrown)

----------------------------------------------------------------------------
(* The other handlers *)

\* The student information form submitted with the name n and the group g
\* typed into its inputs (with an empty name or group the handler only sets
\* formError).
HandleStudentInfoSubmit(n, g) ==
    /\ step = "studentInfo"
    /\ studentName' = n
    /\ studentGroup' = g
    /\ step' = "fileUpload"
    /\ now' = Later
    /\ UNCHANGED <<apiKey, examFiles, gradingResult, isLoading, error,
                   archivedResults, stored, sessionSubmissions,
                   penalizedArchiveEntry, cycles>>

\* addFilesToState for one picked file of an accepted type.
AddFilesToState(f) ==
    /\ step = "fileUpload"
    /\ LET known == \E k \in 1..Len(examFiles) :
                        examFiles[k].name = f.name /\ examFiles[k].size = f.size
           added == IF known THEN examFiles ELSE Append(examFiles, f)
       IN  /\ Len(added) <= MaxFiles
           /\ examFiles' = added
    /\ error' = ""
    /\ now' = Later
    /\ UNCHANGED <<apiKey, step, studentName, studentGroup, gradingResult, isLoading,
                   archivedResults, stored, sessionSubmissions,
                   penalizedArchiveEntry, cycles>>

\* The archive left as the penalty rewrote it.
RestoreArchiveKeepingPenalty(archive, originalResult) == archive

\* Lines 535-540
RestoreArchive(archive, originalResult) ==
    [k \in 1..Len(archive) |->
        IF archive[k].id = originalResult.id THEN originalResult ELSE archive[k]]

\* Offered by the results view while a penalty transaction is pending.
HandleRestoreArchivedResult ==
    /\ step = "results"
    /\ gradingResult # NullResult
    /\ penalizedArchiveEntry # NullEntry
    /\ LET restoredArchive ==
               RestoreArchive(archivedResults, penalizedArchiveEntry.originalResult)
       IN  /\ archivedResults' = restoredArchive
           /\ stored' = Item(Stringify(restoredArchive))
    /\ penalizedArchiveEntry' = NullEntry
    /\ now' = Later
    /\ UNCHANGED <<apiKey, step, studentName, studentGroup, examFiles, gradingResult,
                   isLoading, error, sessionSubmissions, cycles>>

\* The header logo and the reset button of the results step.
HandleReset ==
    /\ step' = "studentInfo"
    /\ studentName' = ""
    /\ studentGroup' = ""
    /\ examFiles' = <<>>
    /\ gradingResult' = NullResult
    /\ error' = ""
    /\ penalizedArchiveEntry' = NullEntry
    /\ now' = Later
    /\ UNCHANGED <<apiKey, isLoading, archivedResults, stored, sessionSubmissions,
                   cycles>>

HandleArchiveResult ==
    /\ step = "results"
    /\ gradingResult # NullResult
    /\ Len(archivedResults) < MaxArchive
    /\ LET updatedArchive == <<gradingResult>> \o archivedResults
       IN  /\ archivedResults' = updatedArchive
           /\ stored' = Item(Stringify(updatedArchive))
    /\ step' = "studentInfo"
    /\ studentName' = ""
    /\ studentGroup' = ""
    /\ examFiles' = <<>>
    /\ gradingResult' = NullResult
    /\ error' = ""
    /\ penalizedArchiveEntry' = NullEntry
    /\ now' = Later
    /\ UNCHANGED <<apiKey, isLoading, sessionSubmissions, cycles>>

HandleGradeNextInGroup ==
    /\ step = "results"
    /\ gradingResult # NullResult
    /\ Len(archivedResults) < MaxArchive
    /\ LET updatedArchive == <<gradingResult>> \o archivedResults
       IN  /\ archivedResults' = updatedArchive
           /\ stored' = Item(Stringify(updatedArchive))
    /\ step' = "studentInfo"
    /\ studentName' = ""
    /\ examFiles' = <<>>
    /\ gradingResult' = NullResult
    /\ error' = ""
    /\ penalizedArchiveEntry' = NullEntry
    /\ now' = Later
    /\ UNCHANGED <<apiKey, studentGroup, isLoading, sessionSubmissions, cycles>>

\* The delete button of the archive row k.
HandleDeleteArchivedResult(k) ==
    /\ k \in 1..Len(archivedResults)
    /\ LET resultId == archivedResults[k].id
           updatedArchive == SelectSeq(archivedResults, LAMBDA r : r.id # resultId)
       IN  /\ archivedResults' = updatedArchive
           /\ stored' = Item(Stringify(updatedArchive))
    /\ now' = Later
    /\ UNCHANGED <<apiKey, step, studentName, studentGroup, examFiles, gradingResult,
                   isLoading, error, sessionSubmissions, penalizedArchiveEntry,
                   cycles>>

\* The archive cleared and the session registry left as it is.
HandleClearArchiveKeepingRegistry ==
    /\ archivedResults' = <<>>
    /\ stored' = Absent
    /\ now' = Later
    /\ UNCHANGED <<apiKey, step, studentName, studentGroup, examFiles, gradingResult,
                   isLoading, error, sessionSubmissions, penalizedArchiveEntry,
                   cycles>>

\* handleClearArchive, the dialog accepted.
HandleClearArchive ==
    /\ archivedResults' = <<>>
    /\ stored' = Absent
    /\ sessionSubmissions' = EmptySubmissions
    /\ now' = Later
    /\ UNCHANGED <<apiKey, step, studentName, studentGroup, examFiles, gradingResult,
                   isLoading, error, penalizedArchiveEntry, cycles>>

\* handleRegradeFromArchive on the archive row k, the dialog accepted.
HandleRegradeFromArchive(k) ==
    /\ k \in 1..Len(archivedResults)
    /\ studentName' = archivedResults[k].studentName
    /\ studentGroup' = archivedResults[k].studentGroup
    /\ examFiles' = <<>>
    /\ gradingResult' = NullResult
    /\ error' = ""
    /\ penalizedArchiveEntry' = NullEntry
    /\ step' = "fileUpload"
    /\ now' = Later
    /\ UNCHANGED <<apiKey, isLoading, archivedResults, stored, sessionSubmissions,
                   cycles>>

\* handleSaveSettings with the given key and an empty group list.  Whether
\* the shown error text contains "API" depends on the translation.  The key
\* is cleared only while no grading is under way (the cycles under way read
\* the key of their closure, not the setting).
HandleSaveSettings(newKey) ==
    /\ newKey = "" => InFlight = {}
    /\ apiKey' = newKey
    /\ error' \in {error, ""}
    /\ studentGroup' = ""
    /\ now' = Later
    /\ UNCHANGED <<step, studentName, examFiles, gradingResult, isLoading,
                   archivedResults, stored, sessionSubmissions,
                   penalizedArchiveEntry, cycles>>

Next ==
    \/ \E st \in Students : HandleStudentInfoSubmit(st[1], st[2])
    \/ \E f \in AppFiles : AddFilesToState(f)
    \/ \E confirm \in BOOLEAN : HandleGradeExam(confirm)
    \/ \E confirm \in BOOLEAN : HandleRegrade(confirm)
    \/ \E i \in Slots : HashFails(i)
    \/ \E i \in Slots, answers \in AppAnswers : GradeSucceeds(i, answers)
    \/ \E i \in Slots, answers \in AppAnswers : GradeFails(i, answers)
    \/ HandleRestoreArchivedResult
    \/ HandleReset
    \/ HandleArchiveResult
    \/ HandleGradeNextInGroup
    \/ \E k \in 1..MaxArchive : HandleDeleteArchivedResult(k)
    \/ HandleClearArchive
    \/ \E k \in 1..MaxArchive : HandleRegradeFromArchive(k)
    \/ \E newKey \in {"", "key"} : HandleSaveSettings(newKey)

Spec == Init /\ [][Next]_vars

----------------------------------------------------------------------------
(* The App component with the scheduling of its asynchronous steps *)

\* Lines 84-106 of part_002, called at 412 and 419 before the loop:
\* fileToGenerativePart reads a file with a FileReader whose promise
\* resolves in onloadend with reader.result.split(...) and has no reject
\* path.  When the file cannot be read (a reference or student file removed
\* or changed on disk since it was picked) reader.result is null, the
\* callback throws and the promise stays pending: gradeExam never settles.
PrepareHangs(i) ==
    /\ cycles[i].pc = "pending"
    /\ cycles' = [cycles EXCEPT ![i].pc = "stuck"]
    /\ UNCHANGED <<apiKey, step, studentName, studentGroup, examFiles, gradingResult,
                   isLoading, error, archivedResults, stored, sessionSubmissions,
                   penalizedArchiveEntry, now>>

NextLive == Next \/ \E i \in Slots : PrepareHangs(i)

\* The hash or the gradeExam call of the run of slot i settles and the
\* handler resumes.
SettleRun(i) ==
    \/ HashFails(i)
    \/ \E answers \in AppAnswers : GradeSucceeds(i, answers)
    \/ \E answers \in AppAnswers : GradeFails(i, answers)

\* Every external call returns or fails in the end and the continuation of
\* a settled promise is run: a run that can resume does resume.
SpecLive == Init /\ [][NextLive]_vars /\ \A i \in Slots : WF_vars(SettleRun(i))

----------------------------------------------------------------------------
(* The App component with two students in each of two groups *)

\* The result of a grading of student A of the given group that the
\* service answered with Graded, as gradeExam returns it at the time id.
GradedA(group, id) ==
    [studentName |-> "A", studentGroup |-> group, score |-> 3,
     totalMarks |-> DefaultTotalMarks,
     cheatingAnalysis |-> [detected |-> FALSE, reasoning |-> "service",
                           isAiGenerated |-> "false"],
     detailedFeedback |-> <<[marksAwarded |-> 1, maxMarks |-> 2],
                            [marksAwarded |-> 2, maxMarks |-> 2]>>,
     id |-> id]

\* The state of the App after student A was graded with the file P and
\* archived in group g1 and then in group g2: no run is under way.
InitGroups ==
    /\ apiKey = "key"
    /\ step = "studentInfo"
    /\ studentName = ""
    /\ studentGroup = ""
    /\ examFiles = <<>>
    /\ gradingResult = NullResult
    /\ isLoading = FALSE
    /\ error = ""
    /\ archivedResults = <<GradedA("g2", 3), GradedA("g1", 1)>>
    /\ stored = Item(Stringify(<<GradedA("g2", 3), GradedA("g1", 1)>>))
    /\ sessionSubmissions =
           [g \in Groups |-> <<[studentName |-> "A",
                                contentHash |-> generateContentHash(<<FileP>>)]>>]
    /\ penalizedArchiveEntry = NullEntry
    /\ cycles = [i \in Slots |-> IdleCycle]
    /\ now = 4

\* Student B is entered in either group and graded with the file P; the
\* header is used while a call is in flight, and a pending penalty is
\* restored.
NextGroups ==
    \/ \E g \in Groups : HandleStudentInfoSubmit("B", g)
    \/ AddFilesToState(FileP)
    \/ HandleGradeExam(TRUE)
    \/ \E i \in Slots, answers \in AppAnswers : GradeSucceeds(i, answers)
    \/ \E i \in Slots, answers \in AppAnswers : GradeFails(i, answers)
    \/ HandleRestoreArchivedResult
    \/ HandleReset

SpecGroups == InitGroups /\ [][NextGroups]_vars

----------------------------------------------------------------------------
(* gradeExam on its own *)

\* The totalMarks arguments gradeExam is called with.
TotalMarksArguments == {DefaultTotalMarks, 20}

\* gradeExam has been called, by the run of slot 1, with any credential,
\* student and totalMarks; nothing else has happened.
InitGrade ==
    /\ apiKey \in {"", "key"}
    /\ step = "studentInfo"
    /\ studentName = ""
    /\ studentGroup = ""
    /\ examFiles = <<>>
    /\ gradingResult = NullResult
    /\ isLoading = FALSE
    /\ error = ""
    /\ archivedResults = <<>>
    /\ stored = Absent
    /\ sessionSubmissions = EmptySubmissions
    /\ penalizedArchiveEntry = NullEntry
    /\ \E st \in Students, tm \in TotalMarksArguments :
           cycles = [i \in Slots |->
                        IF i = 1
                        THEN [IdleCycle EXCEPT
                                 !.pc = "pending",
                                 !.apiKey = apiKey,
                                 !.studentName = st[1],
                                 !.studentGroup = st[2],
                                 !.totalMarks = tm,
                                 !.files = <<FileP>>]
                        ELSE IdleCycle]
    /\ now = 0

\* The credential guard, or one turn of the loop with the service's answer.
GradeExamTurn(resp) ==
    /\ cycles[1].pc = "pending"
    /\ cycles' = [cycles EXCEPT ![1] = gradeExamStep(cycles[1], resp, now + 1)]
    /\ UNCHANGED <<apiKey, step, studentName, studentGroup, examFiles, gradingResult,
                   isLoading, error, archivedResults, stored, sessionSubmissions,
                   penalizedArchiveEntry, now>>

NextGrade == \E resp \in Responses : GradeExamTurn(resp)

SpecGrade == InitGrade /\ [][NextGrade]_vars

----------------------------------------------------------------------------
(* constructGradingPrompt *)

Languages == {"ar", "en", "fr"}
Sensitivities == {"Low", "Medium", "High"}
Strictnesses == {"Lenient", "Normal", "Strict"}

\* The sentences of the prompt are kept as tagged items: the tag says which
\* sentence of the template it is, language the branch of the template it
\* was taken from, and the other fields are the values filled in.

\* plagiarismInstruction: the sentence chosen by the sensitivity level.
PlagiarismInstruction(language, plagiarismSensitivity) ==
    [item |-> "plagiarismInstruction", language |-> language,
     level |-> IF plagiarismSensitivity = "Low" THEN "basic check, verbatim matches only"
               ELSE IF plagiarismSensitivity = "Medium"
                    THEN "direct copying and significant paraphrasing"
               ELSE "strict, even minor overlaps"]

\* strictnessInstruction, "" for Normal.
StrictnessInstruction(gradingStrictness) ==
    IF gradingStrictness = "Strict" THEN "extremely strict"
    ELSE IF gradingStrictness = "Lenient" THEN "lenient"
    ELSE ""

\* The integrity block with the sensitivity sentence kept beside the alert.
IntegrityAnalysisBlockWithSensitivity(language, matchingStudentName, plagiarismSensitivity) ==
    IF matchingStudentName # NoMatch
    THEN <<[item |-> "criticalAlert", language |-> language,
            student |-> matchingStudentName],
           [item |-> "mandatoryPenalty", language |-> language, score |-> 0,
            marksAwarded |-> 0],
           [item |-> "setDetected", language |-> language, detected |-> TRUE],
           [item |-> "reasoningVerbatim", language |-> language,
            student |-> matchingStudentName],
           PlagiarismInstruction(language, plagiarismSensitivity)>>
    ELSE <<[item |-> "webPlagiarismCheck", language |-> language],
           [item |-> "aiDetection", language |-> language],
           [item |-> "webSources", language |-> language],
           PlagiarismInstruction(language, plagiarismSensitivity)>>

\* integrityAnalysisBlock (lines 160-177, 246-263, 332-349).
IntegrityAnalysisBlock(language, matchingStudentName, plagiarismSensitivity) ==
    IF matchingStudentName # NoMatch
    THEN <<[item |-> "criticalAlert", language |-> language,
            student |-> matchingStudentName],
           [item |-> "mandatoryPenalty", language |-> language, score |-> 0,
            marksAwarded |-> 0],
           [item |-> "setDetected", language |-> language, detected |-> TRUE],
           [item |-> "reasoningVerbatim", language |-> language,
            student |-> matchingStudentName]>>
    ELSE <<[item |-> "webPlagiarismCheck", language |-> language],
           [item |-> "aiDetection", language |-> language],
           [item |-> "webSources", language |-> language],
           PlagiarismInstruction(language, plagiarismSensitivity)>>

\* The prompt as the sequence of its numbered sections; no reference
\* material is provided.
constructGradingPrompt(name, group, totalMarks, gradingStrictness, plagiarismSensitivity, customInstructions, matchingStudentName, language) ==
    <<[section |-> "role", language |-> language, items |-> <<>>],
      [section |-> "reference", language |-> language, items |-> <<>>],
      [section |-> "input", language |-> language,
       items |-> <<[item |-> "student", name |-> name, group |-> group]>>],
      [section |-> "1 allocation", language |-> language,
       items |-> <<[item |-> "totalMarks", totalMarks |-> totalMarks]>>],
      [section |-> "2 evaluation", language |-> language,
       items |-> <<[item |-> "strictness",
                    text |-> StrictnessInstruction(gradingStrictness)]>>],
      [section |-> "3 aggregation", language |-> language, items |-> <<>>],
      [section |-> "4 integrity", language |-> language,
       items |-> IntegrityAnalysisBlock(language, matchingStudentName,
                                        plagiarismSensitivity)]>>
    \o (IF customInstructions # ""
        THEN <<[section |-> "5 custom", language |-> language,
                items |-> <<[item |-> "custom", text |-> customInstructions]>>]>>
        ELSE <<>>)
    \o <<[section |-> "6 format", language |-> language, items |-> <<>>],
         [section |-> "schema", language |-> language,
          items |-> <<[item |-> "totalMarks", totalMarks |-> totalMarks]>>]>>

\* A call of constructGradingPrompt with its arguments; prompt is what it
\* returned.
PromptCalls ==
    [pc : {"called"}, studentName : {"B"}, studentGroup : {"g1"},
     totalMarks : {DefaultTotalMarks},
     gradingStrictness : Strictnesses, plagiarismSensitivity : Sensitivities,
     customInstructions : {"", "show the working"},
     matchingStudentName : {NoMatch, "A", "C"}, language : Languages,
     prompt : {<<>>}]

InitPrompt ==
    /\ apiKey = "key"
    /\ step = "grading"
    /\ studentName = "B"
    /\ studentGroup = "g1"
    /\ examFiles = <<FileP>>
    /\ gradingResult = NullResult
    /\ isLoading = TRUE
    /\ error = ""
    /\ archivedResults = <<>>
    /\ stored = Absent
    /\ sessionSubmissions = EmptySubmissions
    /\ penalizedArchiveEntry = NullEntry
    /\ \E call \in PromptCalls :
           cycles = [i \in Slots |-> IF i = 1 THEN call ELSE IdleCycle]
    /\ now = 0

\* Lines 422-433 of part_002: gradeExam builds the prompt.
ConstructPrompt ==
    /\ cycles[1].pc = "called"
    /\ LET c == cycles[1]
       IN  cycles' = [cycles EXCEPT ![1] =
               [c EXCEPT !.pc = "prompted",
                         !.prompt = constructGradingPrompt(
                             c.studentName, c.studentGroup, c.totalMarks,
                             c.gradingStrictness, c.plagiarismSensitivity,
                             c.customInstructions, c.matchingStudentName, c.language)]]
    /\ UNCHANGED <<apiKey, step, studentName, studentGroup, examFiles, gradingResult,
                   isLoading, error, archivedResults, stored, sessionSubmissions,
                   penalizedArchiveEntry, now>>

NextPrompt == ConstructPrompt

SpecPrompt == InitPrompt /\ [][NextPrompt]_vars

----------------------------------------------------------------------------
(* The file list and generateContentHash, alone *)

\* The upload step of student A: no file picked yet.
InitHash ==
    /\ apiKey = "key"
    /\ step = "fileUpload"
    /\ studentName = "A"
    /\ studentGroup = "g1"
    /\ examFiles = <<>>
    /\ gradingResult = NullResult
    /\ isLoading = FALSE
    /\ error = ""
    /\ archivedResults = <<>>
    /\ stored = Absent
    /\ sessionSubmissions = EmptySubmissions
    /\ penalizedArchiveEntry = NullEntry
    /\ cycles = [i \in Slots |-> IdleCycle]
    /\ now = 0

\* handleRemoveFile(index)
HandleRemoveFile(index) ==
    /\ index \in 1..Len(examFiles)
    /\ examFiles' = SubSeq(examFiles, 1, index - 1) \o
                     SubSeq(examFiles, index + 1, Len(examFiles))
    /\ now' = Later
    /\ UNCHANGED <<apiKey, step, studentName, studentGroup, gradingResult, isLoading,
                   error, archivedResults, stored, sessionSubmissions,
                   penalizedArchiveEntry, cycles>>

\* Line 450: the fingerprint of the files picked, kept by the run of slot 1.
HashFiles ==
    /\ examFiles # <<>>
    /\ cycles' = [cycles EXCEPT ![1] =
           [IdleCycle EXCEPT !.pc = "hashed",
                             !.files = examFiles,
                             !.contentHash = generateContentHash(examFiles)]]
    /\ UNCHANGED <<apiKey, step, studentName, studentGroup, examFiles, gradingResult,
                   isLoading, error, archivedResults, stored, sessionSubmissions,
                   penalizedArchiveEntry, now>>

NextHash ==
    \/ \E f \in Files : AddFilesToState(f)
    \/ \E index \in 1..MaxFiles : HandleRemoveFile(index)
    \/ HashFiles

SpecHash == InitHash /\ [][NextHash]_vars

----------------------------------------------------------------------------
(* The session registry and its lookup, alone *)

MaxRecords == 3

\* The fingerprints looked up and recorded.
HashesTried == {generateContentHash(<<FileP>>), generateContentHash(<<FileQ>>)}

RecordCount == Len(sessionSubmissions["g1"]) + Len(sessionSubmissions["g2"])

\* Lines 478-485: the submission of a student is recorded.
RecordStudent(name, group, contentHash) ==
    /\ RecordCount < MaxRecords
    /\ sessionSubmissions' = RecordSubmission(sessionSubmissions, group, name, contentHash)
    /\ UNCHANGED <<apiKey, step, studentName, studentGroup, examFiles, gradingResult,
                   isLoading, error, archivedResults, stored,
                   penalizedArchiveEntry, cycles, now>>

\* Lines 451-455: the lookup made by the run of slot 1 for a student.
LookupMatch(name, group, contentHash) ==
    /\ cycles' = [cycles EXCEPT ![1] =
           [IdleCycle EXCEPT
               !.pc = "looked",
               !.studentName = name,
               !.studentGroup = group,
               !.subs = sessionSubmissions,
               !.contentHash = contentHash,
               !.matchingStudentName =
                   FindMatch(sessionSubmissions[group], contentHash, name)]]
    /\ UNCHANGED <<apiKey, step, studentName, studentGroup, examFiles, gradingResult,
                   isLoading, error, archivedResults, stored, sessionSubmissions,
                   penalizedArchiveEntry, now>>

NextLookup ==
    \/ \E n \in Names, g \in Groups, h \in HashesTried : RecordStudent(n, g, h)
    \/ \E n \in Names, g \in Groups, h \in HashesTried : LookupMatch(n, g, h)

SpecLookup == InitHash /\ [][NextLookup]_vars

----------------------------------------------------------------------------
(* Properties of gradeExam, stated of the run of slot 1 under SpecGrade *)

LastSeen(c) == c.seen[Len(c.seen)]

Returned(c) == c.pc = "settled" /\ c.thrown = ""

\* The response is a failure of the rate-limit class: what gradeExam
\* reports as RATE_LIMIT_ERROR when it is the last failure.
RateLimitClass(resp) ==
    ThrownBy(resp) # NoError /\ MapError(ThrownBy(resp)) = "RATE_LIMIT_ERROR"

\* C1: every result returned by a successful gradeExam call carries the
\* feedback items of the service's response and a score equal to the sum of
\* their marksAwarded, whatever score the response carried.
C1_ScoreIsSumOfMarks ==
    \A i \in Slots :
        Returned(cycles[i]) =>
            LET result == cycles[i].ret
            IN  /\ Len(result.detailedFeedback) = Len(LastSeen(cycles[i]).marks)
                /\ \A k \in 1..Len(result.detailedFeedback) :
                       result.detailedFeedback[k].marksAwarded = LastSeen(cycles[i]).marks[k]
                /\ result.score = SumMarks(result.detailedFeedback)

\* A call has returned a result whose score is not the one the response gave.
C1_Witness ==
    /\ Returned(cycles[1])
    /\ LastSeen(cycles[1]).score # NoScore
    /\ LastSeen(cycles[1]).score # cycles[1].ret.score
    /\ cycles[1].ret.score = 3

\* C5: within one gradeExam call the service is invoked at most 3 times, an
\* attempt is followed by another only if it failed with the rate-limit
\* class, and a failure of any other class ends the call, with an error, at
\* that attempt.
C5_RetryOnlyOnRateLimit ==
    LET c == cycles[1]
    IN  /\ c.calls <= 3
        /\ Len(c.seen) = c.calls
        /\ \A k \in 1..Len(c.seen) :
               (k < Len(c.seen) \/ c.pc = "pending") => RateLimitClass(c.seen[k])
        /\ \A k \in 1..Len(c.seen) :
               (ThrownBy(c.seen[k]) # NoError /\ ~RateLimitClass(c.seen[k])) =>
                   (k = Len(c.seen) /\ c.pc = "settled" /\ c.thrown # "")

\* C6: when the first two attempts of a call fail with a rate-limit error, a
\* third attempt is made, and when that one succeeds the call returns the
\* result normalized from its response and throws nothing.
C6_ThirdAttemptSucceeds ==
    LET c == cycles[1]
    IN  (/\ c.pc = "settled"
         /\ Len(c.seen) >= 2
         /\ c.seen[1] = RateLimited
         /\ c.seen[2] = RateLimited)
        => /\ Len(c.seen) = 3
           /\ ThrownBy(c.seen[3]) = NoError =>
                  /\ c.thrown = ""
                  /\ c.ret.studentName = c.studentName
                  /\ c.ret.studentGroup = c.studentGroup
                  /\ c.ret.totalMarks = c.totalMarks
                  /\ c.ret.score = SumMarks(c.ret.detailedFeedback)
                  /\ Len(c.ret.detailedFeedback) = Len(c.seen[3].marks)
                  /\ \A k \in 1..Len(c.seen[3].marks) :
                         c.ret.detailedFeedback[k].marksAwarded = c.seen[3].marks[k]

\* A call has returned at its third attempt, after two rate-limit errors.
C6_Witness ==
    /\ Returned(cycles[1])
    /\ cycles[1].calls = 3
    /\ cycles[1].seen[1] = RateLimited
    /\ cycles[1].seen[2] = RateLimited
    /\ cycles[1].seen[3] = Graded
    /\ cycles[1].ret.score = 3

\* JSON.parse cannot decode the text of the response.
Undecodable(resp) == resp.kind = "text" /\ resp.body \in {"garbage", "garbage429"}

TransportKinds ==
    {"RATE_LIMIT_ERROR", "API_KEY_INVALID", "SAFETY_ERROR", "PAYLOAD_SIZE_ERROR",
     "UNEXPECTED_GRADING_ERROR"}

\* C13: a response that cannot be decoded ends the call at that attempt: no
\* further attempt is made and the call fails with JSON_PARSE_ERROR, which
\* is none of the kinds reported for a transport error.
C13_UndecodableIsFatal ==
    LET c == cycles[1]
    IN  /\ "JSON_PARSE_ERROR" \notin TransportKinds
        /\ \A k \in 1..Len(c.seen) :
               Undecodable(c.seen[k]) =>
                   /\ k = Len(c.seen)
                   /\ c.pc = "settled"
                   /\ c.thrown = "JSON_PARSE_ERROR"

\* The error kinds of gradeExam.
ErrorKinds == TransportKinds \cup {"API_KEY_MISSING", "JSON_PARSE_ERROR"}

\* The kind that stands for the failure a response is: the condition the
\* service failed with, a text that cannot be decoded, or any other failure.
KindOfFailure(resp) ==
    CASE resp.kind = "fail" /\ resp.err = ErrRateLimit -> "RATE_LIMIT_ERROR"
      [] resp.kind = "fail" /\ resp.err = ErrKeyInvalid -> "API_KEY_INVALID"
      [] resp.kind = "fail" /\ resp.err = ErrSafety -> "SAFETY_ERROR"
      [] resp.kind = "fail" /\ resp.err = ErrPayload -> "PAYLOAD_SIZE_ERROR"
      [] Undecodable(resp) -> "JSON_PARSE_ERROR"
      [] OTHER -> "UNEXPECTED_GRADING_ERROR"

\* C14: a gradeExam call that fails throws exactly one of the seven error
\* kinds: API_KEY_MISSING when no credential is configured, otherwise the
\* kind of the failure of its last attempt; it never throws the error it
\* caught.
C14_FailureIsADistinguishedKind ==
    LET c == cycles[1]
    IN  (c.pc = "settled" /\ ~Returned(c)) =>
            /\ c.thrown \in ErrorKinds
            /\ IF c.seen = <<>>
               THEN c.apiKey = "" /\ c.thrown = "API_KEY_MISSING"
               ELSE c.thrown = KindOfFailure(LastSeen(c))

\* A call failed with the kind of its second failure, a content rejection
\* that followed a rate-limit error.
C14_Witness ==
    LET c == cycles[1]
    IN  /\ c.pc = "settled"
        /\ Len(c.seen) = 2
        /\ c.seen[1] = RateLimited
        /\ c.seen[2].err = ErrSafety
        /\ c.thrown = "SAFETY_ERROR"

\* C15: a call whose every attempt fails with a rate-limit error makes
\* exactly 3 attempts and then fails with RATE_LIMIT_ERROR.
C15_RateLimitExhaustsRetries ==
    LET c == cycles[1]
    IN  (c.seen # <<>> /\ \A k \in 1..Len(c.seen) : c.seen[k] = RateLimited) =>
            /\ c.calls = Len(c.seen)
            /\ c.calls <= MAX_RETRIES
            /\ c.pc = "settled" <=> c.calls = MAX_RETRIES
            /\ c.pc = "settled" => c.thrown = "RATE_LIMIT_ERROR"

\* A call has failed after three rate-limit errors.
C15_Witness ==
    /\ cycles[1].pc = "settled"
    /\ cycles[1].seen = <<RateLimited, RateLimited, RateLimited>>
    /\ cycles[1].calls = 3
    /\ cycles[1].thrown = "RATE_LIMIT_ERROR"

\* C16: the totalMarks of every result returned by gradeExam is the
\* totalMarks the caller passed, whatever totalMarks the response carried.
C16_TotalMarksIsTheArgument ==
    \A i \in Slots :
        Returned(cycles[i]) => cycles[i].ret.totalMarks = cycles[i].totalMarks

\* A call made with totalMarks 20 has returned a result of totalMarks 20
\* from a response that said 7.
C16_Witness ==
    /\ Returned(cycles[1])
    /\ cycles[1].totalMarks = 20
    /\ LastSeen(cycles[1]).totalMarks = 7
    /\ cycles[1].ret.totalMarks = 20

----------------------------------------------------------------------------
(* Properties of the grading cycle, stated of the steps of Spec *)

\* The run of slot i starts, ends in the results step, ends in the catch
\* block.
StartStep(i) == cycles[i].pc = "fresh" /\ cycles'[i].pc = "pending"

SuccessStep(i) ==
    cycles[i].pc = "pending" /\ cycles'[i].pc = "done" /\ step' = "results"

FailedStep(i) ==
    cycles[i].pc = "pending" /\ cycles'[i].pc = "done" /\ step' = "fileUpload"

\* The fingerprint of the run of slot i and the student its lookup finds.
HashOf(i) == generateContentHash(cycles[i].files)

MatchOf(i) ==
    FindMatch(cycles[i].subs[cycles[i].studentGroup], HashOf(i), cycles[i].studentName)

\* The result r is e with the penalty naming the student name.
IsPenalizedCopy(r, e, name) ==
    /\ r.id = e.id
    /\ r.studentName = e.studentName
    /\ r.studentGroup = e.studentGroup
    /\ r.score = 0
    /\ Len(r.detailedFeedback) = Len(e.detailedFeedback)
    /\ \A k \in 1..Len(r.detailedFeedback) : r.detailedFeedback[k].marksAwarded = 0
    /\ r.cheatingAnalysis.detected
    /\ r.cheatingAnalysis.reasoning = t("app.cheatingPenaltyReason", name)

\* C2: when the run of a student ends successfully and the registry held,
\* for the same group and fingerprint, the record of another student, every
\* archived result of that student is left with score 0, all marksAwarded 0
\* and cheatingAnalysis.detected with the reasoning naming the student
\* graded.
C2_DuplicatePenalizesFirst ==
    [][\A i \in Slots :
          (SuccessStep(i) /\ MatchOf(i) # NoMatch) =>
              \A k \in 1..Len(archivedResults) :
                  IsMatched(archivedResults[k], MatchOf(i), cycles[i].studentGroup) =>
                      \E j \in 1..Len(archivedResults') :
                          IsPenalizedCopy(archivedResults'[j], archivedResults[k],
                                          cycles[i].studentName)]_vars

\* The penalty has been applied by the run of slot i.
PenaltyStep(i) ==
    /\ SuccessStep(i)
    /\ MatchOf(i) # NoMatch
    /\ \E k \in 1..Len(cycles[i].archive) :
           IsMatched(cycles[i].archive[k], MatchOf(i), cycles[i].studentGroup)

\* C3: when a run applies the duplicate penalty, the result shown as the
\* current result is the value gradeExam returned to it, not a penalized one.
C3_NewResultUntouched ==
    [][\A i \in Slots :
          PenaltyStep(i) =>
              /\ \E answers \in AppAnswers, clock \in SettleTimes :
                     /\ RunToSettle(cycles[i], answers, clock).thrown = ""
                     /\ gradingResult' = RunToSettle(cycles[i], answers, clock).ret
              /\ gradingResult'.studentName = cycles[i].studentName
              /\ gradingResult'.studentGroup = cycles[i].studentGroup
              /\ gradingResult'.score = SumMarks(gradingResult'.detailedFeedback)]_vars

\* A penalty is pending on the archived result of A while the result of B
\* is shown with its marks.
C3_Witness ==
    /\ step = "results"
    /\ penalizedArchiveEntry # NullEntry
    /\ penalizedArchiveEntry.originalResult.studentName = "A"
    /\ gradingResult.studentName = "B"
    /\ gradingResult.score = 3
    /\ \E k \in 1..Len(archivedResults) :
           IsPenalizedCopy(archivedResults[k], penalizedArchiveEntry.originalResult, "B")

\* C4: a restore replaces the archive entry that has the id of the pending
\* transaction by the transaction's pre-penalty version, leaves every other
\* entry in place, persists the archive and leaves no pending transaction;
\* and the transaction a penalty creates holds the entry as it was before
\* the rewrite.
C4_RestoreRevertsPenalty ==
    [][/\ HandleRestoreArchivedResult =>
              /\ Len(archivedResults') = Len(archivedResults)
              /\ \A k \in 1..Len(archivedResults) :
                     archivedResults'[k] =
                         IF archivedResults[k].id = penalizedArchiveEntry.originalResult.id
                         THEN penalizedArchiveEntry.originalResult
                         ELSE archivedResults[k]
              /\ stored'.present
              /\ Parse(stored'.text) = archivedResults'
              /\ penalizedArchiveEntry' = NullEntry
       /\ \A i \in Slots :
              (PenaltyStep(i) /\ penalizedArchiveEntry' # NullEntry) =>
                  /\ \E k \in 1..Len(cycles[i].archive) :
                         cycles[i].archive[k] = penalizedArchiveEntry'.originalResult
                  /\ IsPenalizedCopy(penalizedArchiveEntry'.newResult,
                                     penalizedArchiveEntry'.originalResult,
                                     cycles[i].studentName)]_vars

\* The result of B is shown, no transaction is pending and the archived
\* result of A, recorded before B, has its marks.
C4_Witness ==
    /\ step = "results"
    /\ gradingResult.studentName = "B"
    /\ gradingResult.studentGroup = "g1"
    /\ penalizedArchiveEntry = NullEntry
    /\ Len(sessionSubmissions["g1"]) = 2
    /\ sessionSubmissions["g1"][1].studentName = "A"
    /\ Len(archivedResults) = 1
    /\ archivedResults[1].studentName = "A"
    /\ archivedResults[1].studentGroup = "g1"
    /\ archivedResults[1].score = 3
    /\ stored = Item(Stringify(archivedResults))
    /\ now % 2 = 0
    /\ InFlight = {}

\* The credential-missing kind: the key gradeExam throws and the key
\* handleGradeExam shows.
CredentialMissing == {"API_KEY_MISSING", "API_KEY_MISSING_SETTINGS"}

GradeRequested == \E confirm \in BOOLEAN : HandleGradeExam(confirm) \/ HandleRegrade(confirm)

RegistryAppended ==
    \E g \in Groups : Len(sessionSubmissions'[g]) > Len(sessionSubmissions[g])

PenaltyWritten ==
    \E k \in 1..Len(archivedResults') :
        /\ archivedResults'[k].cheatingAnalysis.detected
        /\ \A j \in 1..Len(archivedResults) : archivedResults[j] # archivedResults'[k]

\* C9: a record is appended to the registry, and an archive entry is
\* rewritten with a penalty, only in the step in which a run resumes after
\* gradeExam has returned, with the normalized result of that run shown.
C9_MutationsOnlyAfterSuccess ==
    [][(RegistryAppended \/ PenaltyWritten) =>
          \E i \in Slots :
              /\ SuccessStep(i)
              /\ gradingResult' # NullResult
              /\ gradingResult'.studentName = cycles[i].studentName
              /\ gradingResult'.studentGroup = cycles[i].studentGroup
              /\ gradingResult'.totalMarks = cycles[i].totalMarks
              /\ gradingResult'.score = SumMarks(gradingResult'.detailedFeedback)]_vars

\* A run has ended by recording its submission and penalizing an entry.
C9_Witness ==
    /\ step = "results"
    /\ gradingResult # NullResult
    /\ penalizedArchiveEntry # NullEntry
    /\ Len(sessionSubmissions["g1"]) = 2
    /\ \E k \in 1..Len(archivedResults) : archivedResults[k].cheatingAnalysis.detected

NoDuplicateRecords(subs) ==
    \A g \in Groups : \A j, k \in 1..Len(subs[g]) : subs[g][j] = subs[g][k] => j = k

\* C10: when a run ends successfully whose group, student and fingerprint
\* the registry already holds, the registry is left as it is; the registry
\* never holds a record twice.
C10_RecordingIsIdempotent ==
    [][/\ \A i \in Slots :
              (/\ SuccessStep(i)
               /\ HasSubmission(sessionSubmissions[cycles[i].studentGroup],
                                cycles[i].studentName, HashOf(i)))
              => sessionSubmissions' = sessionSubmissions
       /\ NoDuplicateRecords(sessionSubmissions')]_vars

\* Three runs have succeeded one after the other, the third for the student
\* of the first, and the registry holds the two records of the first two.
C10_Witness ==
    /\ now = 5
    /\ step = "results"
    /\ gradingResult.studentName = "A"
    /\ gradingResult.studentGroup = "g1"
    /\ gradingResult.id = 5
    /\ Len(sessionSubmissions["g1"]) = 2
    /\ sessionSubmissions["g1"][1].studentName = "A"
    /\ sessionSubmissions["g1"][2].studentName = "B"


----------------------------------------------------------------------------
(* Properties of the lookup, stated of the run of slot 1 under SpecLookup *)

\* The places of the records of the group that carry the fingerprint looked
\* up and belong to another student than the one looked up for.
Candidates(c) ==
    {k \in 1..Len(c.subs[c.studentGroup]) :
        /\ c.subs[c.studentGroup][k].contentHash = c.contentHash
        /\ c.subs[c.studentGroup][k].studentName # c.studentName}

\* C11: the lookup made for a group, a fingerprint and a student returns the
\* student of the earliest-recorded entry of that group that has the same
\* fingerprint and another student, nothing when there is no such entry,
\* and never the student the lookup is made for.
C11_LookupFindsEarliestOther ==
    LET c == cycles[1]
        recs == c.subs[c.studentGroup]
    IN  c.pc = "looked" =>
            /\ c.matchingStudentName # c.studentName
            /\ IF Candidates(c) = {}
               THEN c.matchingStudentName = NoMatch
               ELSE LET first == CHOOSE k \in Candidates(c) :
                                     \A j \in Candidates(c) : k <= j
                    IN  c.matchingStudentName = recs[first].studentName

\* A lookup for A found B, recorded after A's own entry and before C's, all
\* three with the fingerprint looked up.
C11_Witness ==
    LET c == cycles[1]
        recs == c.subs["g1"]
    IN  /\ c.pc = "looked"
        /\ c.studentName = "A"
        /\ c.studentGroup = "g1"
        /\ Len(recs) = 3
        /\ recs[1].studentName = "A"
        /\ recs[2].studentName = "B"
        /\ recs[3].studentName = "C"
        /\ \A k \in 1..3 : recs[k].contentHash = c.contentHash
        /\ c.matchingStudentName = "B"

----------------------------------------------------------------------------
(* Properties of the fingerprint, stated of the run of slot 1 under SpecHash *)

\* The lists that hold the files of the list in another order.
PermutationsOf(files) ==
    {[k \in 1..Len(files) |-> files[p[k]]] : p \in Permutations(1..Len(files))}

\* C12: the fingerprint computed for a list of uploaded files is the
\* fingerprint of every permutation of that list.
C12_HashIgnoresOrder ==
    cycles[1].pc = "hashed" =>
        \A permuted \in PermutationsOf(cycles[1].files) :
            generateContentHash(permuted) = cycles[1].contentHash


----------------------------------------------------------------------------
(* Properties of the archive, stated of the states of Spec *)

\* C17: whatever operations have run, no two entries of the archive have
\* the same id.
C17_ArchiveIdsAreUnique ==
    \A j, k \in 1..Len(archivedResults) :
        j # k => archivedResults[j].id # archivedResults[k].id

\* The archive holds two results of the same student, the later one on top.
C17_Witness ==
    /\ Len(archivedResults) = 2
    /\ archivedResults[1].studentName = archivedResults[2].studentName
    /\ archivedResults[1].studentGroup = archivedResults[2].studentGroup
    /\ archivedResults[1].id > archivedResults[2].id

\* What JSON.parse reads back from the archivedExams key: the empty
\* collection when the key is absent.
PersistedArchive == IF stored.present THEN Parse(stored.text) ELSE <<>>

----------------------------------------------------------------------------
(* Properties of the penalty transaction, stated of the steps of Spec *)

\* C19: the pending penalty transaction is one pair of an original entry
\* and its penalized copy, and none is pending once a grading cycle has
\* started, once the penalty has been restored, and once the form has been
\* reset by the reset, archive-result or grade-next operation.
C19_OnePendingPenaltyAtMost ==
    [][/\ penalizedArchiveEntry' # NullEntry =>
              /\ penalizedArchiveEntry'.originalResult # NullResult
              /\ penalizedArchiveEntry'.newResult.id =
                     penalizedArchiveEntry'.originalResult.id
       /\ (\E i \in Slots : StartStep(i)) => penalizedArchiveEntry' = NullEntry
       /\ HandleRestoreArchivedResult => penalizedArchiveEntry' = NullEntry
       /\ (HandleReset \/ HandleArchiveResult \/ HandleGradeNextInGroup) =>
              penalizedArchiveEntry' = NullEntry]_vars

\* A grading cycle is under way with no transaction pending, while the
\* archive still holds the entry an earlier cycle penalized.
C19_Witness ==
    /\ step = "grading"
    /\ InFlight # {}
    /\ penalizedArchiveEntry = NullEntry
    /\ \E k \in 1..Len(archivedResults) : archivedResults[k].cheatingAnalysis.detected


----------------------------------------------------------------------------
(* Properties of the clearing of the archive, stated of the steps of Spec *)

\* The archive is cleared: its entries go and the archivedExams key is
\* removed.
ClearStep == archivedResults' = <<>> /\ stored.present /\ ~stored'.present

\* The record the run of slot i matched is one of the registry.
MatchIsRecorded(i) ==
    \E k \in 1..Len(sessionSubmissions[cycles[i].studentGroup]) :
        LET sub == sessionSubmissions[cycles[i].studentGroup][k]
        IN  sub.studentName = MatchOf(i) /\ sub.contentHash = HashOf(i)

----------------------------------------------------------------------------
(* Properties of the runs in flight, stated of the states of Spec *)

\* C21: at most one grading run is outstanding at any time: while the
\* gradeExam call of a run is in flight no second run has been started.
C21_OneGradingAtATime == Cardinality(InFlight) <= 1


----------------------------------------------------------------------------
(* Properties of the pre-check, stated of the steps of Spec *)

\* Everything handleGradeExam asks for before the pre-check is at hand.
ReadyToGrade ==
    apiKey # "" /\ examFiles # <<>> /\ studentName # "" /\ studentGroup # ""

RunStarts == \E i \in Slots : StartStep(i)

\* C22 as claimed: whenever the credential, files, name and group are
\* present, a requested grading starts a run, whether or not the archive
\* holds a result of the same student and group.
C22_PreCheckNeverBlocks ==
    [][(ReadyToGrade /\ GradeRequested) => RunStarts]_vars

\* C22 as amended: with the credential, files, name and group present, a
\* requested grading starts a run when the archive holds no result of the
\* same student and group or the user accepts the warning; it fails to
\* start only when there is such a result and the user declines, and then
\* nothing is changed.
C22_PreCheckBlocksOnlyOnDecline ==
    [][/\ \A confirm \in BOOLEAN :
              (/\ ReadyToGrade
               /\ HandleGradeExam(confirm) \/ HandleRegrade(confirm)
               /\ confirm \/ ~IsDuplicate(archivedResults, studentName, studentGroup))
              => RunStarts
       /\ (ReadyToGrade /\ GradeRequested /\ ~RunStarts) =>
              /\ IsDuplicate(archivedResults, studentName, studentGroup)
              /\ UNCHANGED <<step, gradingResult, error, isLoading, archivedResults,
                             stored, sessionSubmissions, cycles>>]_vars

\* A run is in flight for a student of whom the archive held a result when
\* it started.
C22_Witness ==
    \E i \in InFlight :
        IsDuplicate(cycles[i].archive, cycles[i].studentName, cycles[i].studentGroup)


----------------------------------------------------------------------------
(* Properties of the penalty, stated of the steps of Spec *)

\* C23: when a run for which the lookup found a match ends successfully
\* and the archive holds a result of the matched student in the group, the
\* run reaches the results step with a penalty transaction pending that
\* holds one of those results as it was and its penalized copy, and the
\* archive holds the penalized copy.
C23_MatchLeavesPenaltyPending ==
    [][\A i \in Slots :
          (/\ SuccessStep(i)
           /\ MatchOf(i) # NoMatch
           /\ \E k \in 1..Len(archivedResults) :
                  IsMatched(archivedResults[k], MatchOf(i), cycles[i].studentGroup))
          => /\ step' = "results"
             /\ penalizedArchiveEntry' # NullEntry
             /\ \E k \in 1..Len(archivedResults) :
                    /\ archivedResults[k] = penalizedArchiveEntry'.originalResult
                    /\ IsMatched(archivedResults[k], MatchOf(i), cycles[i].studentGroup)
             /\ IsPenalizedCopy(penalizedArchiveEntry'.newResult,
                                penalizedArchiveEntry'.originalResult,
                                cycles[i].studentName)
             /\ \E j \in 1..Len(archivedResults') :
                    archivedResults'[j] = penalizedArchiveEntry'.newResult]_vars


----------------------------------------------------------------------------
(* Properties of the prompt, stated of the call of slot 1 under SpecPrompt *)

\* The items of the integrity sections of a prompt, one sequence a section.
IntegritySections(prompt) ==
    {k \in 1..Len(prompt) : prompt[k].section = "4 integrity"}

ItemsTagged(items, tag) == {k \in 1..Len(items) : items[k].item = tag}

\* C24: in each language the prompt holds exactly one integrity clause; with
\* a matching student it mandates score 0 and the fixed reasoning naming
\* that student and holds no sensitivity instruction; without one it asks
\* for the web-plagiarism and AI-generation analysis and holds the one
\* instruction of the configured sensitivity level.
C24_OneIntegrityClause ==
    LET c == cycles[1]
    IN  c.pc = "prompted" =>
            /\ Cardinality(IntegritySections(c.prompt)) = 1
            /\ \A k \in IntegritySections(c.prompt) :
                   LET items == c.prompt[k].items
                   IN  /\ \A j \in 1..Len(items) : items[j].language = c.language
                       /\ IF c.matchingStudentName # NoMatch
                          THEN /\ \E j \in ItemsTagged(items, "mandatoryPenalty") :
                                      items[j].score = 0 /\ items[j].marksAwarded = 0
                               /\ \E j \in ItemsTagged(items, "reasoningVerbatim") :
                                      items[j].student = c.matchingStudentName
                               /\ ItemsTagged(items, "plagiarismInstruction") = {}
                               /\ ItemsTagged(items, "webPlagiarismCheck") = {}
                               /\ ItemsTagged(items, "aiDetection") = {}
                          ELSE /\ ItemsTagged(items, "webPlagiarismCheck") # {}
                               /\ ItemsTagged(items, "aiDetection") # {}
                               /\ Cardinality(ItemsTagged(items, "plagiarismInstruction")) = 1
                               /\ \A j \in ItemsTagged(items, "plagiarismInstruction") :
                                      items[j] = PlagiarismInstruction(c.language,
                                                     c.plagiarismSensitivity)
                               /\ ItemsTagged(items, "mandatoryPenalty") = {}
                               /\ ItemsTagged(items, "reasoningVerbatim") = {}

\* The Arabic prompt built for a match with A at sensitivity High.
C24_Witness ==
    /\ cycles[1].pc = "prompted"
    /\ cycles[1].language = "ar"
    /\ cycles[1].matchingStudentName = "A"
    /\ cycles[1].plagiarismSensitivity = "High"
    /\ \E k \in IntegritySections(cycles[1].prompt) :
           \E j \in ItemsTagged(cycles[1].prompt[k].items, "reasoningVerbatim") :
               cycles[1].prompt[k].items[j].student = "A"


----------------------------------------------------------------------------
(* Termination of the grading cycle, stated of the behaviours of SpecLive *)

\* C25: every grading run that has been started ends, in the results step
\* or in the catch block, and the App does not stay in the grading step
\* for ever.
C25_EveryRunEnds ==
    /\ \A i \in Slots : (cycles[i].pc = "pending") ~> (cycles[i].pc = "done")
    /\ (step = "grading") ~> (step # "grading")


----------------------------------------------------------------------------
(* The archive across a grading call *)

\* The ids of the results of an archive.
Ids(archive) == {archive[k].id : k \in 1..Len(archive)}

\* The run of slot i ends, in the results step or in the catch block.
SettleStep(i) == cycles[i].pc = "pending" /\ cycles'[i].pc = "done"

\* C26: a result that was archived when a run started and has been removed
\* from the archive while the call was in flight is in neither the archive
\* in memory nor the persisted archive when the run has ended.
C26_RemovedStaysRemoved ==
    [][\A i \in Slots :
          SettleStep(i) =>
              \A id \in Ids(cycles[i].archive) \ Ids(archivedResults) :
                  /\ id \notin Ids(archivedResults')
                  /\ id \notin Ids(IF stored'.present THEN Parse(stored'.text)
                                   ELSE <<>>)]_vars


\* The result r carries the duplicate penalty that names the student name.
IsPenaltyOf(r, name) ==
    /\ r.cheatingAnalysis.detected
    /\ r.cheatingAnalysis.reasoning = t("app.cheatingPenaltyReason", name)

\* The run of slot i grades again a student the registry of its closure
\* holds with the same fingerprint, after a penalty naming that student
\* was written on an archived result of the student its lookup finds.
RegradeAfterPenalty(i) ==
    /\ MatchOf(i) # NoMatch
    /\ HasSubmission(cycles[i].subs[cycles[i].studentGroup], cycles[i].studentName,
                     HashOf(i))
    /\ \E k \in 1..Len(cycles[i].archive) :
           /\ IsMatched(cycles[i].archive[k], MatchOf(i), cycles[i].studentGroup)
           /\ IsPenaltyOf(cycles[i].archive[k], cycles[i].studentName)

\* C27: when the current student is graded again with the same files after
\* a duplicate penalty was written on an archived result of student A, the
\* penalty transaction pending afterwards holds as originalResult a result
\* of A without that penalty, with the score and the marks grading gave it.
C27_RegradeKeepsOriginal ==
    [][\A i \in Slots :
          (SuccessStep(i) /\ RegradeAfterPenalty(i)) =>
              /\ penalizedArchiveEntry' # NullEntry
              /\ IsMatched(penalizedArchiveEntry'.originalResult, MatchOf(i),
                           cycles[i].studentGroup)
              /\ ~IsPenaltyOf(penalizedArchiveEntry'.originalResult,
                              cycles[i].studentName)]_vars


\* C28: a duplicate penalty applied to the archive as it stands rewrites
\* only the entry whose id the penalty transaction holds, every other entry
\* keeping its place and content, so that restoring the transaction's
\* originalResult gives back the archive as it was before the penalty.
C28_PenaltyRewritesOneEntry ==
    [][\A i \in Slots :
          (PenaltyStep(i) /\ cycles[i].archive = archivedResults) =>
              /\ Len(archivedResults') = Len(archivedResults)
              /\ \A k \in 1..Len(archivedResults) :
                     archivedResults[k].id # penalizedArchiveEntry'.originalResult.id
                         => archivedResults'[k] = archivedResults[k]
              /\ RestoreArchive(archivedResults',
                                penalizedArchiveEntry'.originalResult)
                     = archivedResults]_vars


----------------------------------------------------------------------------
(* The archived results *)

\* The score of the result r is the sum of the marks of its items.
ScoreIsSum(r) == r.score = SumMarks(r.detailedFeedback)

\* C29: every result of the archive in memory and of the persisted archive
\* has a score equal to the sum of the marksAwarded of its feedback items,
\* whatever archive, penalty, restore, delete and clear operations led to
\* the state.
C29_ArchivedScoreIsSum ==
    /\ \A k \in 1..Len(archivedResults) : ScoreIsSum(archivedResults[k])
    /\ \A k \in 1..Len(PersistedArchive) : ScoreIsSum(PersistedArchive[k])

\* An archived result carries a penalty that zeroed a score of 3, and the
\* transaction that can restore it is pending.
C29_Witness ==
    /\ penalizedArchiveEntry # NullEntry
    /\ penalizedArchiveEntry.originalResult.score = 3
    /\ \E k \in 1..Len(archivedResults) :
           /\ archivedResults[k] = penalizedArchiveEntry.newResult
           /\ archivedResults[k].cheatingAnalysis.detected
           /\ archivedResults[k].score = 0
           /\ Len(archivedResults[k].detailedFeedback) = 2


----------------------------------------------------------------------------
(* Duplicate detection and the groups *)

\* The results of an archive.
Entries(archive) == {archive[k] : k \in 1..Len(archive)}

\* The registry the run of slot i started with holds, under the group g,
\* the fingerprint of the run for a student other than the one graded.
RecordedUnder(i, g) ==
    \E k \in 1..Len(cycles[i].subs[g]) :
        /\ cycles[i].subs[g][k].contentHash = HashOf(i)
        /\ cycles[i].subs[g][k].studentName # cycles[i].studentName

\* C30: when a run ends successfully, a penalty is written only if the
\* fingerprint is recorded under the group of the run itself, and every
\* archived result of another group is left as it was, whatever its
\* student name.
C30_DetectionStaysInGroup ==
    [][\A i \in Slots :
          SuccessStep(i) =>
              /\ ~RecordedUnder(i, cycles[i].studentGroup) =>
                     UNCHANGED <<archivedResults, stored, penalizedArchiveEntry>>
              /\ \A e \in Entries(archivedResults) :
                     e.studentGroup # cycles[i].studentGroup =>
                         \/ e \in Entries(archivedResults')
                         \/ e.id \notin Ids(archivedResults')]_vars

====
